---- MODULE Spec2Model ----
(***************************************************************************)
(* Model of the relay-encapsulated STUN transport of the ICE agent:         *)
(*   ice/src/agent/agent_external.rs  address codec, SendInfo framing and   *)
(*                                    the AgentExternal mailbox             *)
(*   ice/src/util/mod.rs              stun_request, listen_udp_in_port_range*)
(* Several specifications share the variables; each one drives one component   *)
(* and leaves the variables of the other components untouched.              *)
(***************************************************************************)
EXTENDS Integers, Sequences, FiniteSets, TLC

(***************************************************************************)
(* Values                                                                   *)
(***************************************************************************)
U16 == 65536
U8 == 256
SEND_INFO_PACKET_TYPE == 170
RELAYED_RESPONSE_TYPE == 204
MAX_MESSAGE_SIZE == 1280

\* Result<T>: Ok(v), Err(e); a panic (unwrap on Err, slice out of bounds,
\* arithmetic overflow in a checked build) is the third outcome of a call.
Ok(v) == [tag |-> "Ok", val |-> v]
Err(e) == [tag |-> "Err", val |-> e]
Panic == [tag |-> "Panic", val |-> "panic"]
IsOk(r) == r.tag = "Ok"
IsErr(r) == r.tag = "Err"
IsPanic(r) == r.tag = "Panic"
NoResult == [tag |-> "None", val |-> "none"]

\* std::net::SocketAddr
V4(ip, port) == [fam |-> "V4", ip |-> ip, port |-> port]
V6(ip, port) == [fam |-> "V6", ip |-> ip, port |-> port]
ZeroAddr == V4(<<0, 0, 0, 0>>, 0)
RelayedAddr == V4(<<127, 0, 0, 1>>, 12345)

AddrA4 == V4(<<192, 168, 1, 2>>, 5000)
AddrB4 == V4(<<10, 0, 0, 1>>, 3478)
AddrM4 == V4(<<255, 255, 255, 255>>, 65535)
AddrA6 == V6(<<0, 0, 0, 0, 0, 0, 0, 0, 0, 0, 0, 0, 0, 0, 0, 1>>, 3478)
AddrB6 == V6(<<32, 1, 13, 184, 0, 0, 0, 0, 0, 0, 0, 0, 0, 0, 1, 2>>, 65535)
Addrs == {AddrA4, AddrB4, AddrM4, ZeroAddr, AddrA6, AddrB6}

\* SendInfo { from, to }
SendInfo(f, t) == [from |-> f, to |-> t]
SendInfos == {SendInfo(f, t) : f \in Addrs, t \in Addrs}
SameFamily(s) == s.from.fam = s.to.fam

\* buf[lo..hi) of a Rust slice, as a 1-based subsequence
Slice(buf, lo, hi) == SubSeq(buf, lo + 1, hi)
\* u16::to_be_bytes / u16::from_be_bytes
to_be_bytes(p) == <<(p \div U8) % U8, p % U8>>
from_be_bytes(b) == b[1] * U8 + b[2]

(***************************************************************************)
(* Address codec and SendInfo framing (agent_external.rs)                   *)
(***************************************************************************)
serialize_socket_addr_le(addr) == addr.ip \o <<addr.port % U8, (addr.port \div U8) % U8>>

serialize_socket_addr(addr) == addr.ip \o to_be_bytes(addr.port)

serialize_send_info_swapped(send_info) ==
    LET serialized == serialize_socket_addr(send_info.to)
                          \o serialize_socket_addr(send_info.from)
        size == Len(serialized) % U8
    IN  Ok(<<SEND_INFO_PACKET_TYPE, size>> \o serialized)

serialize_send_info(send_info) ==
    LET serialized == serialize_socket_addr(send_info.from)
                          \o serialize_socket_addr(send_info.to)
        size == Len(serialized) % U8
    IN  Ok(<<SEND_INFO_PACKET_TYPE, size>> \o serialized)

parse_recv_info_lax(buf, len) ==
    IF len < 6 THEN Err("ErrAddressParseFailed")
    ELSE IF len = 18 THEN
        IF Len(buf) < 18 THEN Panic
        ELSE Ok(V6(Slice(buf, 0, 16), from_be_bytes(Slice(buf, 16, 18))))
    ELSE IF Len(buf) < 6 THEN Panic
    ELSE Ok(V4(Slice(buf, 0, 4), from_be_bytes(Slice(buf, 4, 6))))

parse_recv_info(buf, len) ==
    IF len < 6 THEN Err("ErrAddressParseFailed")
    ELSE IF len = 6 THEN
        IF Len(buf) < 6 THEN Panic
        ELSE Ok(V4(Slice(buf, 0, 4), from_be_bytes(Slice(buf, 4, 6))))
    ELSE IF len = 18 THEN
        IF Len(buf) < 18 THEN Panic
        ELSE Ok(V6(Slice(buf, 0, 16), from_be_bytes(Slice(buf, 16, 18))))
    ELSE Err("ErrAddressParseFailed")

parse_send_info(buf, len) ==
    IF len = 12 THEN
        IF Len(buf) < 12 THEN Panic
        ELSE Ok(SendInfo(V4(Slice(buf, 0, 4), from_be_bytes(Slice(buf, 4, 6))),
                         V4(Slice(buf, 6, 10), from_be_bytes(Slice(buf, 10, 12)))))
    ELSE IF len = 36 THEN
        IF Len(buf) < 36 THEN Panic
        ELSE Ok(SendInfo(V6(Slice(buf, 0, 16), from_be_bytes(Slice(buf, 16, 18))),
                         V6(Slice(buf, 18, 34), from_be_bytes(Slice(buf, 34, 36)))))
    ELSE Err("ErrAddressParseFailed")

(***************************************************************************)
(* State                                                                    *)
(***************************************************************************)
VARIABLES
    \* AgentExternal behind Arc<Mutex<..>>
    egress_msg,     \* VecDeque<String>
    ingress_mgs,    \* VecDeque<String>
    lock,           \* task holding the tokio Mutex guard, or NoTask
    m_pc,           \* per task: "idle", "lock" (awaiting the guard), "cs", "ret"
    m_op,           \* per task: operation of the call in progress
    m_arg,          \* per task: message argument of the call
    m_ret,          \* per task: Option<String> returned by get_message / pop_front
    m_snap,         \* per task: both queues as they were when the guard was taken
    m_calls,        \* number of calls started
    enq_egress,     \* history: messages handed to push_back on egress
    deq_egress,     \* history: messages popped from egress
    enq_ingress,    \* history: messages handed to push_back on ingress
    deq_ingress,    \* history: messages popped from ingress
    \* listen_udp_in_port_range(vnet, port_max, port_min, laddr)
    p_in,           \* arguments: port_min, port_max, laddr_port
    p_free,         \* ports on which vnet.bind succeeds
    p_pc,           \* "call", "scan", "done", "panic"
    port_start,
    port_current,
    p_result,       \* Result returned by the call
    p_count,        \* number of vnet.bind calls made
    p_tried,        \* ports of the effective range on which bind was called
    p_outside,      \* number of bind calls on ports outside the requested ports
    p_last,         \* port of the latest bind call, -1 before the first
    \* stun_request(conn, server_addr, deadline)
    s_local,        \* what conn.local_addr() returns
    s_server,       \* server_addr
    s_deadline,     \* deadline, in milliseconds
    s_tid,          \* the transaction id TransactionId::new() draws
    s_pc,           \* "call", "await", "done", "panic"
    s_sent,         \* datagrams handed to conn.send_to, in order
    s_recvs,        \* number of conn.recv_from calls started
    s_elapsed,      \* milliseconds spent in the pending recv_from
    s_env,          \* what the transport did: "none", "send_err", "datagram", "recv_err"
    s_dgram,        \* the datagram recv_from delivered, if any
    s_result,       \* Result returned by the call
    \* encode / decode of one SendInfo
    c_info,         \* the SendInfo to encode
    c_pc,           \* "init", "encoded", "decoded"
    c_wire,         \* what serialize_send_info returned
    c_out,          \* what parse_send_info returned
    \* encode / decode of one endpoint, and the parsers on arbitrary input
    e_addr,         \* the SocketAddr to serialize
    e_pc,           \* "init", "encoded", "decoded"
    e_bytes,        \* what serialize_socket_addr returned
    e_out,          \* what parse_recv_info returned for e_bytes
    r_buf,          \* buf argument of the parsers
    r_len,          \* len argument of the parsers
    r_recv,         \* what parse_recv_info(r_buf, r_len) returned
    r_send,         \* what parse_send_info(r_buf, r_len) returned
    \* local_interfaces(vnet, interface_filter, ip_filter, network_types)
    interfaces,     \* what vnet.get_interfaces() returned: name and addrs of each
    interface_filter, \* Option: the set of names the filter accepts
    ip_filter,      \* Option: the set of addresses the filter accepts
    network_types,  \* the slice of NetworkType
    i_pc,           \* "types", "ifaces", "addrs", "done"
    i_t,            \* position of the loop over network_types
    i_n,            \* position of the loop over interfaces
    i_a,            \* position of the loop over iface.addrs()
    ipv4requested,
    ipv6requested,
    ips,            \* the HashSet being filled
    i_result        \* the set returned

mboxVars == <<egress_msg, ingress_mgs, lock, m_pc, m_op, m_arg, m_ret, m_snap,
              m_calls, enq_egress, deq_egress, enq_ingress, deq_ingress>>
portVars == <<p_in, p_free, p_pc, port_start, port_current, p_result, p_count,
              p_tried, p_outside, p_last>>
stunVars == <<s_local, s_server, s_deadline, s_tid, s_pc, s_sent, s_recvs,
              s_elapsed, s_env, s_dgram, s_result>>
codecVars == <<c_info, c_pc, c_wire, c_out>>
addrVars == <<e_addr, e_pc, e_bytes, e_out, r_buf, r_len, r_recv, r_send>>
ifaceVars == <<interfaces, interface_filter, ip_filter, network_types, i_pc, i_t,
               i_n, i_a, ipv4requested, ipv6requested, ips, i_result>>
vars == <<mboxVars, portVars, stunVars, codecVars, addrVars, ifaceVars>>

(***************************************************************************)
(* AgentExternal mailbox (agent_external.rs)                                *)
(***************************************************************************)
NumTasks == 2
MaxCalls == 3
Tasks == 1..NumTasks
NoTask == 0
Msgs == {"A", "B"}
MboxOps == {"send", "recv", "push", "drain"}

\* Option<String>
None == <<>>
Some(v) == <<v>>

push_back(q, x) == Append(q, x)
pop_front(q) == IF q = <<>> THEN [ret |-> None, q |-> q]
                ELSE [ret |-> Some(Head(q)), q |-> Tail(q)]

\* AgentExternal::new
AgentExternalNew == [egress_msg |-> <<>>, ingress_mgs |-> <<>>]

send_message_front(egress, message) == <<message>> \o egress

\* AgentExternal::send_message
send_message(egress, message) == push_back(egress, message)

get_message_back(ingress) ==
    IF ingress = <<>> THEN [ret |-> None, q |-> ingress]
    ELSE [ret |-> Some(ingress[Len(ingress)]), q |-> SubSeq(ingress, 1, Len(ingress) - 1)]

\* AgentExternal::get_message
get_message(ingress) == pop_front(ingress)

MboxInit ==
    /\ egress_msg = AgentExternalNew.egress_msg
    /\ ingress_mgs = AgentExternalNew.ingress_mgs
    /\ lock = NoTask
    /\ m_pc = [t \in Tasks |-> "idle"]
    /\ m_op = [t \in Tasks |-> "none"]
    /\ m_arg = [t \in Tasks |-> "A"]
    /\ m_ret = [t \in Tasks |-> None]
    /\ m_snap = [t \in Tasks |-> AgentExternalNew]
    /\ m_calls = 0
    /\ enq_egress = <<>>
    /\ deq_egress = <<>>
    /\ enq_ingress = <<>>
    /\ deq_ingress = <<>>

\* A task starts a call on the shared mailbox: send_external(external, msg),
\* a receive (get_message under the guard), or one of the two steps of the
\* external bridging task (push to ingress, drain of egress).
MboxCall(t, op, msg) ==
    /\ m_pc[t] = "idle"
    /\ m_calls < MaxCalls
    /\ m_calls' = m_calls + 1
    /\ m_pc' = [m_pc EXCEPT ![t] = "lock"]
    /\ m_op' = [m_op EXCEPT ![t] = op]
    /\ m_arg' = [m_arg EXCEPT ![t] = msg]
    /\ m_ret' = [m_ret EXCEPT ![t] = None]
    /\ UNCHANGED <<egress_msg, ingress_mgs, lock, m_snap,
                   enq_egress, deq_egress, enq_ingress, deq_ingress>>

LockGuardNone(t) == TRUE

\* the tokio Mutex grants the guard only while no task holds it
LockGuard(t) == lock = NoTask

\* external.lock().await
MboxLock(t) ==
    /\ m_pc[t] = "lock"
    /\ LockGuard(t)
    /\ lock' = t
    /\ m_pc' = [m_pc EXCEPT ![t] = "cs"]
    /\ m_snap' = [m_snap EXCEPT ![t] =
                     [egress_msg |-> egress_msg, ingress_mgs |-> ingress_mgs]]
    /\ UNCHANGED <<egress_msg, ingress_mgs, m_op, m_arg, m_ret, m_calls,
                   enq_egress, deq_egress, enq_ingress, deq_ingress>>

\* agent.send_message(msg)
MboxSendMessage(t) ==
    /\ m_pc[t] = "cs" /\ m_op[t] = "send"
    /\ egress_msg' = send_message(egress_msg, m_arg[t])
    /\ enq_egress' = Append(enq_egress, m_arg[t])
    /\ m_pc' = [m_pc EXCEPT ![t] = "ret"]
    /\ UNCHANGED <<ingress_mgs, lock, m_op, m_arg, m_ret, m_snap, m_calls,
                   deq_egress, enq_ingress, deq_ingress>>

\* agent.get_message()
MboxGetMessage(t) ==
    /\ m_pc[t] = "cs" /\ m_op[t] = "recv"
    /\ LET r == get_message(ingress_mgs)
       IN  /\ ingress_mgs' = r.q
           /\ m_ret' = [m_ret EXCEPT ![t] = r.ret]
           /\ deq_ingress' = deq_ingress \o r.ret
    /\ m_pc' = [m_pc EXCEPT ![t] = "ret"]
    /\ UNCHANGED <<egress_msg, lock, m_op, m_arg, m_snap, m_calls,
                   enq_egress, deq_egress, enq_ingress>>

\* external.lock().await.ingress_mgs.push_back(s)
MboxExternalPush(t) ==
    /\ m_pc[t] = "cs" /\ m_op[t] = "push"
    /\ ingress_mgs' = push_back(ingress_mgs, m_arg[t])
    /\ enq_ingress' = Append(enq_ingress, m_arg[t])
    /\ m_pc' = [m_pc EXCEPT ![t] = "ret"]
    /\ UNCHANGED <<egress_msg, lock, m_op, m_arg, m_ret, m_snap, m_calls,
                   enq_egress, deq_egress, deq_ingress>>

\* agent.egress_msg.pop_front()
MboxExternalDrain(t) ==
    /\ m_pc[t] = "cs" /\ m_op[t] = "drain"
    /\ LET r == pop_front(egress_msg)
       IN  /\ egress_msg' = r.q
           /\ m_ret' = [m_ret EXCEPT ![t] = r.ret]
           /\ deq_egress' = deq_egress \o r.ret
    /\ m_pc' = [m_pc EXCEPT ![t] = "ret"]
    /\ UNCHANGED <<ingress_mgs, lock, m_op, m_arg, m_snap, m_calls,
                   enq_egress, enq_ingress, deq_ingress>>

\* the guard is dropped when the call returns
MboxReturn(t) ==
    /\ m_pc[t] = "ret"
    /\ lock' = IF lock = t THEN NoTask ELSE lock
    /\ m_pc' = [m_pc EXCEPT ![t] = "idle"]
    /\ UNCHANGED <<egress_msg, ingress_mgs, m_op, m_arg, m_ret, m_snap, m_calls,
                   enq_egress, deq_egress, enq_ingress, deq_ingress>>

MboxNext ==
    \E t \in Tasks :
        \/ \E op \in MboxOps, msg \in Msgs : MboxCall(t, op, msg)
        \/ MboxLock(t)
        \/ MboxSendMessage(t)
        \/ MboxGetMessage(t)
        \/ MboxExternalPush(t)
        \/ MboxExternalDrain(t)
        \/ MboxReturn(t)

(***************************************************************************)
(* listen_udp_in_port_range (util/mod.rs)                                   *)
(***************************************************************************)
PortArgs(pmin, pmax, lport) == [port_min |-> pmin, port_max |-> pmax, laddr_port |-> lport]
PortRanges == {<<5000, 5002>>, <<0, 2>>, <<5001, 5001>>, <<65534, 0>>,
               <<65535, 65535>>, <<5002, 5000>>, <<0, 0>>}
LaddrPorts == {0, 5001}
PortInputs == {PortArgs(r[1], r[2], lp) : r \in PortRanges, lp \in LaddrPorts}
Rands == {0, 1, 2, 65535}

\* let i = if port_min == 0 { 1 } else { port_min };
EffMin(in) == IF in.port_min = 0 THEN 1 ELSE in.port_min
\* let j = if port_max == 0 { 0xFFFF } else { port_max };
EffMax(in) == IF in.port_max = 0 THEN 65535 ELSE in.port_max
EffRange(in) == EffMin(in)..EffMax(in)
IsDirectBothZero(in) == in.port_min = 0 /\ in.port_max = 0

\* laddr.port() != 0 || (port_min == 0 && port_max == 0)
IsDirect(in) == in.laddr_port # 0 \/ (in.port_min = 0 /\ in.port_max = 0)

\* the ports whose availability the environment decides independently; every
\* other port is occupied
FreeCandidates(in) ==
    IF IsDirect(in) THEN {in.laddr_port}
    ELSE IF EffMin(in) <= EffMax(in) THEN EffRange(in) \cup {0}
    ELSE {0}

\* vnet.bind(addr) on port p
Bind(free, p) == IF p \in free THEN Ok(p) ELSE Err("bind")

PortInit ==
    /\ p_in \in PortInputs
    /\ p_free \in SUBSET FreeCandidates(p_in)
    /\ p_pc = "call"
    /\ port_start = 0
    /\ port_current = 0
    /\ p_result = NoResult
    /\ p_count = 0
    /\ p_tried = {}
    /\ p_outside = 0
    /\ p_last = -1

\* bookkeeping of one vnet.bind call on port p
NoteBind(p, inRange) ==
    /\ p_count' = p_count + 1
    /\ p_last' = p
    /\ p_tried' = IF inRange THEN p_tried \cup {p} ELSE p_tried
    /\ p_outside' = IF inRange THEN p_outside ELSE p_outside + 1

\* if laddr.port() != 0 || (port_min == 0 && port_max == 0) { return Ok(vnet.bind(laddr).await?); }
PortDirectBind ==
    /\ p_pc = "call"
    /\ IsDirect(p_in)
    /\ p_result' = Bind(p_free, p_in.laddr_port)
    /\ NoteBind(p_in.laddr_port, TRUE)
    /\ p_pc' = "done"
    /\ UNCHANGED <<p_in, p_free, port_start, port_current>>

\* return Err(Error::ErrPort) of the range check
InvalidRangeError == Err("ErrPort")
\* Err(Error::ErrPort) after the loop
ExhaustedError == Err("ErrPort")

\* if i > j { return Err(Error::ErrPort); }
PortInvalidRange ==
    /\ p_pc = "call"
    /\ ~IsDirect(p_in)
    /\ EffMin(p_in) > EffMax(p_in)
    /\ p_result' = InvalidRangeError
    /\ p_pc' = "done"
    /\ UNCHANGED <<p_in, p_free, port_start, port_current, p_count, p_tried,
                   p_outside, p_last>>

PickStart(r, i, j) == (r % (j - i + 1)) + i

\* let port_start = rand::random::<u16>() % (j - i + 1) + i;
PortPickStart(r) ==
    /\ p_pc = "call"
    /\ ~IsDirect(p_in)
    /\ EffMin(p_in) <= EffMax(p_in)
    /\ port_start' = PickStart(r, EffMin(p_in), EffMax(p_in))
    /\ port_current' = port_start'
    /\ p_pc' = "scan"
    /\ UNCHANGED <<p_in, p_free, p_result, p_count, p_tried, p_outside, p_last>>

\* Ok(c) => return Ok(c)
PortBindOk ==
    /\ p_pc = "scan"
    /\ IsOk(Bind(p_free, port_current))
    /\ p_result' = Bind(p_free, port_current)
    /\ NoteBind(port_current, port_current \in EffRange(p_in))
    /\ p_pc' = "done"
    /\ UNCHANGED <<p_in, p_free, port_start, port_current>>

WrapPortNoReset(next, i, j) == next

\* if port_current > j { port_current = i; }
WrapPort(next, i, j) == IF next > j THEN i ELSE next

\* the rest of a loop iteration whose bind failed, from the incremented port
PortAfterIncrement(next) ==
    LET wrapped == WrapPort(next, EffMin(p_in), EffMax(p_in))
    IN  /\ port_current' = wrapped
        /\ IF wrapped = port_start
           THEN p_pc' = "done" /\ p_result' = ExhaustedError
           ELSE p_pc' = "scan" /\ p_result' = p_result

\* Err(err) => log::debug!(..); port_current += 1; ...
PortBindFailAdvance ==
    /\ p_pc = "scan"
    /\ IsErr(Bind(p_free, port_current))
    /\ port_current + 1 < U16
    /\ NoteBind(port_current, port_current \in EffRange(p_in))
    /\ PortAfterIncrement(port_current + 1)
    /\ UNCHANGED <<p_in, p_free, port_start>>

\* port_current += 1 at 65535 with overflow checks: the task panics
PortBindFailOverflowPanic ==
    /\ p_pc = "scan"
    /\ IsErr(Bind(p_free, port_current))
    /\ port_current + 1 >= U16
    /\ NoteBind(port_current, port_current \in EffRange(p_in))
    /\ p_pc' = "panic"
    /\ p_result' = Panic
    /\ UNCHANGED <<p_in, p_free, port_start, port_current>>

\* port_current += 1 at 65535 without overflow checks: wraps to 0
PortBindFailOverflowWrap ==
    /\ p_pc = "scan"
    /\ IsErr(Bind(p_free, port_current))
    /\ port_current + 1 >= U16
    /\ NoteBind(port_current, port_current \in EffRange(p_in))
    /\ PortAfterIncrement((port_current + 1) % U16)
    /\ UNCHANGED <<p_in, p_free, port_start>>

PortNext ==
    \/ PortDirectBind
    \/ PortInvalidRange
    \/ \E r \in Rands : PortPickStart(r)
    \/ PortBindOk
    \/ PortBindFailAdvance
    \/ PortBindFailOverflowPanic
    \/ PortBindFailOverflowWrap

(***************************************************************************)
(* STUN messages (stun crate): header of 20 bytes                           *)
(*   type(2) length(2) magic cookie(4) transaction id(12), then attributes  *)
(***************************************************************************)
MESSAGE_HEADER_SIZE == 20
MAGIC_COOKIE == <<33, 18, 164, 66>>
BINDING_REQUEST == <<0, 1>>
BINDING_SUCCESS == <<1, 1>>
Tid1 == <<1, 2, 3, 4, 5, 6, 7, 8, 9, 10, 11, 12>>
Tid2 == <<255, 254, 253, 252, 251, 250, 249, 248, 247, 246, 245, 204>>
Tids == {Tid1, Tid2}

\* Message::build(&[typ, transaction id]) followed by attribute bytes
MessageRaw(typ, tid, attrs) == typ \o to_be_bytes(Len(attrs)) \o MAGIC_COOKIE \o tid \o attrs

\* Message::decode on res.raw
MessageDecode(raw) ==
    IF Len(raw) < MESSAGE_HEADER_SIZE THEN Err("ErrUnexpectedHeaderEof")
    ELSE LET size == from_be_bytes(Slice(raw, 2, 4))
         IN  IF Slice(raw, 4, 8) # MAGIC_COOKIE THEN Err("ErrInvalidMagicCookie")
             ELSE IF Len(raw) < MESSAGE_HEADER_SIZE + size THEN Err("ErrBufferTooSmall")
             ELSE Ok([raw |-> raw,
                      typ |-> Slice(raw, 0, 2),
                      length |-> size,
                      transaction_id |-> Slice(raw, 8, 20),
                      attributes |-> Slice(raw, 20, 20 + size)])

(***************************************************************************)
(* stun_request (util/mod.rs)                                               *)
(***************************************************************************)
GraceMs == 200
TickMs == 100
SlackMs == 100
MaxWaitMs == 600
Deadlines == {0, 100, 300}
LocalAddrs == {Ok(AddrA4), Ok(AddrA6), Err("io")}
ServerAddrs == {AddrB4, AddrB6, AddrM4}

\* ice::Error values: Util(e) and Stun(e) come from `?`, Other(s) carries text
ErrUtil(e) == [kind |-> "Util", msg |-> e]
ErrStun(e) == [kind |-> "Stun", msg |-> e]
ErrOther(e) == [kind |-> "Other", msg |-> e]
IoErrorText == "io error"
ElapsedText == "deadline has elapsed"

\* datagrams the transport may deliver: an optional 0xCC marker, the header
\* bytes that follow it, and the payload
Dgram(kind, info, hdr, payload) == [kind |-> kind, info |-> info, hdr |-> hdr, payload |-> payload]
DgramBytes(d) ==
    (IF d.kind = "framed" THEN <<RELAYED_RESPONSE_TYPE>> ELSE <<>>) \o d.hdr \o d.payload
\* [length][from][to], as the relay writes it
RelayHeader(info) == Tail(serialize_send_info(info).val)
RelayInfos == {SendInfo(AddrB4, AddrA4), SendInfo(AddrM4, ZeroAddr),
               SendInfo(AddrB6, AddrA6), SendInfo(AddrB4, AddrA6)}
StunPayloads == {MessageRaw(BINDING_SUCCESS, Tid1, <<>>),
                 MessageRaw(BINDING_SUCCESS, Tid2, <<0, 32, 0, 0>>),
                 MessageRaw(BINDING_SUCCESS, Tid1, <<>>) \o <<7>>}
JunkPayloads == {<<>>, <<0, 1, 2>>, <<170, 1, 2>>,
                 <<204, 1, 0, 0, 33, 18, 164, 66, 1, 2, 3, 4, 5, 6, 7, 8, 9, 10, 11, 12>>,
                 <<1, 1, 0, 0, 9, 9, 9, 9, 1, 2, 3, 4, 5, 6, 7, 8, 9, 10, 11, 12>>,
                 <<1, 1, 0, 8, 33, 18, 164, 66, 1, 2, 3, 4, 5, 6, 7, 8, 9, 10, 11, 12>>}
Payloads == StunPayloads \cup JunkPayloads
BadHeaders == {<<>>, <<0>>, <<5, 1, 2, 3, 4, 5>>, <<12, 1, 2>>, <<36, 1, 2, 3, 4, 5, 6, 7, 8, 9, 10, 11, 12>>,
               <<18, 10, 0, 0, 1, 13, 150, 192, 168, 1, 2, 19, 136, 0, 0, 0, 0, 0, 0>>}
Dgrams ==
    {Dgram("framed", i, RelayHeader(i), p) : i \in RelayInfos, p \in Payloads}
    \cup {Dgram("framed", SendInfo(ZeroAddr, ZeroAddr), h, <<>>) : h \in BadHeaders}
    \cup {Dgram("direct", SendInfo(ZeroAddr, ZeroAddr), <<>>, p) : p \in Payloads}
NoDgram == Dgram("none", SendInfo(ZeroAddr, ZeroAddr), <<>>, <<>>)

Min(a, b) == IF a < b THEN a ELSE b

\* let mut bs = vec![0_u8; MAX_MESSAGE_SIZE], after recv_from wrote data into it
BsBuf(data) == [k \in 1..MAX_MESSAGE_SIZE |-> IF k <= Len(data) THEN data[k] ELSE 0]

PayloadStartOffByOne(len) == 1 + len

\* bs[(2 + len as usize)..n]
PayloadStart(len) == 2 + len

LocalOfFrom(recv_info) == recv_info.from

\* local_addr = recv_info.to
LocalOf(recv_info) == recv_info.to

\* lines 118-137: classify the received buffer and decode the STUN message
Classify(data) ==
    LET n == Min(Len(data), MAX_MESSAGE_SIZE)
        bs == BsBuf(data)
        p_type == bs[1]
    IN  IF p_type = RELAYED_RESPONSE_TYPE THEN
            LET len == bs[2]
                recv_info == parse_send_info(Slice(bs, 2, MAX_MESSAGE_SIZE), len)
            IN  IF ~IsOk(recv_info) THEN Panic
                ELSE IF PayloadStart(len) > n THEN Panic
                ELSE LET res == MessageDecode(Slice(bs, PayloadStart(len), n))
                     IN  IF IsOk(res) THEN Ok(<<res.val, LocalOf(recv_info.val)>>)
                         ELSE Err(ErrStun(res.val))
        ELSE LET res == MessageDecode(Slice(bs, 0, n))
             IN  IF IsOk(res) THEN Ok(<<res.val, ZeroAddr>>)
                 ELSE Err(ErrStun(res.val))

RequestFrameBare(local, server, tid) == MessageRaw(BINDING_REQUEST, tid, <<>>)

\* serialize_send_info(send_info).unwrap() ++ request.raw
RequestFrame(local, server, tid) ==
    serialize_send_info(SendInfo(local, server)).val \o MessageRaw(BINDING_REQUEST, tid, <<>>)

HasDeadlineAlways(deadline) == deadline >= 0

\* if deadline > Duration::from_secs(0)
HasDeadline(deadline) == deadline > 0

TimeoutDurationNoDeadline(deadline) == GraceMs

\* deadline.add(Duration::from_millis(200))
TimeoutDuration(deadline) == deadline + GraceMs

StunInit ==
    /\ s_local \in LocalAddrs
    /\ s_server \in ServerAddrs
    /\ s_deadline \in Deadlines
    /\ s_tid \in Tids
    /\ s_pc = "call"
    /\ s_sent = <<>>
    /\ s_recvs = 0
    /\ s_elapsed = 0
    /\ s_env = "none"
    /\ s_dgram = NoDgram
    /\ s_result = NoResult

\* conn.local_addr().unwrap() on an Err
StunLocalAddrPanic ==
    /\ s_pc = "call"
    /\ ~IsOk(s_local)
    /\ s_pc' = "panic"
    /\ s_result' = Panic
    /\ UNCHANGED <<s_local, s_server, s_deadline, s_tid, s_sent, s_recvs, s_elapsed, s_env, s_dgram>>

\* conn.send_to(&send_info_raw, relayed_addr).await succeeds; recv_from starts
StunSendOk ==
    /\ s_pc = "call"
    /\ IsOk(s_local)
    /\ s_sent' = Append(s_sent, [to |-> RelayedAddr,
                                 data |-> RequestFrame(s_local.val, s_server, s_tid)])
    /\ s_recvs' = s_recvs + 1
    /\ s_pc' = "await"
    /\ UNCHANGED <<s_local, s_server, s_deadline, s_tid, s_elapsed, s_env, s_dgram, s_result>>

\* conn.send_to(..).await? fails
StunSendErr ==
    /\ s_pc = "call"
    /\ IsOk(s_local)
    /\ s_sent' = Append(s_sent, [to |-> RelayedAddr,
                                 data |-> RequestFrame(s_local.val, s_server, s_tid)])
    /\ s_result' = Err(ErrUtil(IoErrorText))
    /\ s_env' = "send_err"
    /\ s_pc' = "done"
    /\ UNCHANGED <<s_local, s_server, s_deadline, s_tid, s_recvs, s_elapsed, s_dgram>>

\* time passes while recv_from is pending; a timer fires at most SlackMs late
StunTick ==
    /\ s_pc = "await"
    /\ IF HasDeadline(s_deadline)
       THEN s_elapsed + TickMs <= TimeoutDuration(s_deadline) + SlackMs
       ELSE s_elapsed + TickMs <= MaxWaitMs
    /\ s_elapsed' = s_elapsed + TickMs
    /\ UNCHANGED <<s_local, s_server, s_deadline, s_tid, s_pc, s_sent, s_recvs, s_env, s_dgram, s_result>>

\* recv_from delivers a datagram: Ok((n, addr)), then lines 118-137
StunRecvOk(d) ==
    /\ s_pc = "await"
    /\ s_dgram' = d
    /\ s_env' = "datagram"
    /\ s_result' = Classify(DgramBytes(d))
    /\ s_pc' = IF IsPanic(s_result') THEN "panic" ELSE "done"
    /\ UNCHANGED <<s_local, s_server, s_deadline, s_tid, s_sent, s_recvs, s_elapsed>>

\* recv_from fails: Error::Other(err.to_string()) under a deadline, `?` without
StunRecvErr ==
    /\ s_pc = "await"
    /\ s_result' = IF HasDeadline(s_deadline) THEN Err(ErrOther(IoErrorText))
                   ELSE Err(ErrUtil(IoErrorText))
    /\ s_env' = "recv_err"
    /\ s_pc' = "done"
    /\ UNCHANGED <<s_local, s_server, s_deadline, s_tid, s_sent, s_recvs, s_elapsed, s_dgram>>

\* tokio::time::timeout(..) elapses: Err(err) => Err(Error::Other(err.to_string()))
StunTimeout ==
    /\ s_pc = "await"
    /\ HasDeadline(s_deadline)
    /\ s_elapsed >= TimeoutDuration(s_deadline)
    /\ s_result' = Err(ErrOther(ElapsedText))
    /\ s_pc' = "done"
    /\ UNCHANGED <<s_local, s_server, s_deadline, s_tid, s_sent, s_recvs, s_elapsed, s_env, s_dgram>>

StunNext ==
    \/ StunLocalAddrPanic
    \/ StunSendOk
    \/ StunSendErr
    \/ StunTick
    \/ \E d \in Dgrams : StunRecvOk(d)
    \/ StunRecvErr
    \/ StunTimeout

(***************************************************************************)
(* SendInfo encode / decode driven over every pair of addresses             *)
(***************************************************************************)
CodecInit ==
    /\ c_info \in SendInfos
    /\ c_pc = "init"
    /\ c_wire = NoResult
    /\ c_out = NoResult

\* serialize_send_info(send_info)
CodecSerializeSendInfo ==
    /\ c_pc = "init"
    /\ c_wire' = serialize_send_info(c_info)
    /\ c_pc' = "encoded"
    /\ UNCHANGED <<c_info, c_out>>

\* parse_send_info(&buf[2..], buf[1] as usize), as stun_request calls it
CodecParseSendInfo ==
    /\ c_pc = "encoded"
    /\ IsOk(c_wire)
    /\ c_out' = parse_send_info(Slice(c_wire.val, 2, Len(c_wire.val)), c_wire.val[2])
    /\ c_pc' = "decoded"
    /\ UNCHANGED <<c_info, c_wire>>

CodecNext ==
    \/ CodecSerializeSendInfo
    \/ CodecParseSendInfo

(***************************************************************************)
(* Endpoint encode / decode, and both parsers on arbitrary (buf, len)       *)
(***************************************************************************)
RawBase6 == serialize_socket_addr(AddrB6) \o serialize_socket_addr(AddrA6) \o <<9, 8, 7, 6>>
RawBase4 == serialize_socket_addr(AddrA4) \o serialize_socket_addr(AddrM4)
                \o serialize_socket_addr(AddrB4) \o serialize_socket_addr(AddrA6)
                \o <<1, 2, 3, 4>>
RawBufLens == {0, 3, 5, 6, 11, 12, 17, 18, 35, 36, 40}
RawBufs == {SubSeq(b, 1, n) : b \in {RawBase6, RawBase4}, n \in RawBufLens}
RawLens == {0, 1, 5, 6, 7, 12, 13, 17, 18, 19, 24, 35, 36, 37, 255, 1000}

AddrInit ==
    /\ e_addr \in Addrs
    /\ e_pc = "init"
    /\ e_bytes = <<>>
    /\ e_out = NoResult
    /\ r_buf \in RawBufs
    /\ r_len \in RawLens
    /\ r_recv = NoResult
    /\ r_send = NoResult

\* serialize_socket_addr(addr)
AddrSerialize ==
    /\ e_pc = "init"
    /\ e_bytes' = serialize_socket_addr(e_addr)
    /\ e_pc' = "encoded"
    /\ UNCHANGED <<e_addr, e_out, r_buf, r_len, r_recv, r_send>>

\* parse_recv_info(&bytes, bytes.len())
AddrParse ==
    /\ e_pc = "encoded"
    /\ e_out' = parse_recv_info(e_bytes, Len(e_bytes))
    /\ e_pc' = "decoded"
    /\ UNCHANGED <<e_addr, e_bytes, r_buf, r_len, r_recv, r_send>>

\* parse_recv_info(buf, len)
RawParseRecvInfo ==
    /\ r_recv = NoResult
    /\ r_recv' = parse_recv_info(r_buf, r_len)
    /\ UNCHANGED <<e_addr, e_pc, e_bytes, e_out, r_buf, r_len, r_send>>

\* parse_send_info(buf, len)
RawParseSendInfo ==
    /\ r_send = NoResult
    /\ r_send' = parse_send_info(r_buf, r_len)
    /\ UNCHANGED <<e_addr, e_pc, e_bytes, e_out, r_buf, r_len, r_recv>>

AddrNext ==
    \/ AddrSerialize
    \/ AddrParse
    \/ RawParseRecvInfo
    \/ RawParseSendInfo

(***************************************************************************)
(* local_interfaces (util/mod.rs)                                           *)
(***************************************************************************)
\* crate::network_type::NetworkType
Udp4 == "udp4"
Udp6 == "udp6"
Tcp4 == "tcp4"
Tcp6 == "tcp6"
NetworkTypeIsIpv4(typ) == typ \in {Udp4, Tcp4}
NetworkTypeIsIpv6(typ) == typ \in {Udp6, Tcp6}

\* std::net::IpAddr, as its octets
Ip4Lo == <<127, 0, 0, 1>>
Ip4Lo2 == <<127, 0, 0, 2>>
Ip4A == <<10, 0, 0, 1>>
Ip4B == <<192, 168, 0, 2>>
Ip6Lo == <<0, 0, 0, 0, 0, 0, 0, 0, 0, 0, 0, 0, 0, 0, 0, 1>>
Ip6A == <<32, 1, 13, 184, 0, 0, 0, 0, 0, 0, 0, 0, 0, 0, 0, 1>>
is_ipv4(ipaddr) == Len(ipaddr) = 4
is_ipv6(ipaddr) == Len(ipaddr) = 16
\* 127.0.0.0/8, or ::1
is_loopback(ipaddr) == IF is_ipv4(ipaddr) THEN ipaddr[1] = 127 ELSE ipaddr = Ip6Lo

Interface(name, addrs) == [name |-> name, addrs |-> addrs]
IfLo == Interface("lo", <<Ip4Lo, Ip6Lo>>)
IfEth0 == Interface("eth0", <<Ip4A, Ip6A>>)
IfWlan0 == Interface("wlan0", <<Ip4Lo2, Ip4A, Ip4B>>)
IfTun0 == Interface("tun0", <<>>)
InterfaceLists == {<<>>, <<IfLo, IfEth0>>, <<IfLo, IfEth0, IfWlan0>>, <<IfWlan0, IfTun0, IfEth0>>}
InterfaceFilters == {None, Some({"eth0", "wlan0"}), Some({"lo", "wlan0"}), Some({})}
IpFilters == {None, Some({Ip4A, Ip4Lo, Ip6Lo}), Some({Ip4B, Ip6A, Ip4Lo2})}
NetworkTypeLists == {<<>>, <<Udp4>>, <<Udp6>>, <<Tcp4>>, <<Udp4, Udp6>>, <<Tcp6, Udp4>>, <<Tcp6, Udp6>>}

\* filter(x) of an Option filter that is Some
FilterAccepts(filter, x) == x \in filter[1]

AcceptAddrAnyLoopback(ipaddr, v4, v6, filter) ==
    /\ (v4 /\ is_ipv4(ipaddr)) \/ (v6 /\ is_ipv6(ipaddr))
    /\ IF filter = None THEN TRUE ELSE FilterAccepts(filter, ipaddr)

\* the condition under which ips.insert(ipaddr) runs
AcceptAddr(ipaddr, v4, v6, filter) ==
    /\ ~is_loopback(ipaddr)
    /\ (v4 /\ is_ipv4(ipaddr)) \/ (v6 /\ is_ipv6(ipaddr))
    /\ IF filter = None THEN TRUE ELSE FilterAccepts(filter, ipaddr)

\* ips is empty, interfaces is fetched, both flags are false
IfaceInit ==
    /\ interfaces \in InterfaceLists
    /\ interface_filter \in InterfaceFilters
    /\ ip_filter \in IpFilters
    /\ network_types \in NetworkTypeLists
    /\ i_pc = "types"
    /\ i_t = 1
    /\ i_n = 1
    /\ i_a = 1
    /\ ipv4requested = FALSE
    /\ ipv6requested = FALSE
    /\ ips = {}
    /\ i_result = {}

\* one pass of: for typ in network_types
IfaceTypeLoop ==
    /\ i_pc = "types"
    /\ i_t <= Len(network_types)
    /\ ipv4requested' = (ipv4requested \/ NetworkTypeIsIpv4(network_types[i_t]))
    /\ ipv6requested' = (ipv6requested \/ NetworkTypeIsIpv6(network_types[i_t]))
    /\ i_t' = i_t + 1
    /\ UNCHANGED <<interfaces, interface_filter, ip_filter, network_types, i_pc,
                   i_n, i_a, ips, i_result>>

IfaceTypeLoopEnd ==
    /\ i_pc = "types"
    /\ i_t > Len(network_types)
    /\ i_pc' = "ifaces"
    /\ UNCHANGED <<interfaces, interface_filter, ip_filter, network_types, i_t,
                   i_n, i_a, ipv4requested, ipv6requested, ips, i_result>>

\* if !filter(iface.name()) { continue; }
IfaceFilteredOut ==
    /\ i_pc = "ifaces"
    /\ i_n <= Len(interfaces)
    /\ IF interface_filter = None THEN FALSE
       ELSE ~FilterAccepts(interface_filter, interfaces[i_n].name)
    /\ i_n' = i_n + 1
    /\ UNCHANGED <<interfaces, interface_filter, ip_filter, network_types, i_pc,
                   i_t, i_a, ipv4requested, ipv6requested, ips, i_result>>

\* the interface passes: enter for ipnet in iface.addrs()
IfaceEnter ==
    /\ i_pc = "ifaces"
    /\ i_n <= Len(interfaces)
    /\ IF interface_filter = None THEN TRUE
       ELSE FilterAccepts(interface_filter, interfaces[i_n].name)
    /\ i_pc' = "addrs"
    /\ i_a' = 1
    /\ UNCHANGED <<interfaces, interface_filter, ip_filter, network_types, i_t,
                   i_n, ipv4requested, ipv6requested, ips, i_result>>

\* one pass of: for ipnet in iface.addrs()
IfaceAddr ==
    /\ i_pc = "addrs"
    /\ i_a <= Len(interfaces[i_n].addrs)
    /\ LET ipaddr == interfaces[i_n].addrs[i_a]
       IN  ips' = IF AcceptAddr(ipaddr, ipv4requested, ipv6requested, ip_filter)
                  THEN ips \cup {ipaddr}
                  ELSE ips
    /\ i_a' = i_a + 1
    /\ UNCHANGED <<interfaces, interface_filter, ip_filter, network_types, i_pc,
                   i_t, i_n, ipv4requested, ipv6requested, i_result>>

IfaceAddrsEnd ==
    /\ i_pc = "addrs"
    /\ i_a > Len(interfaces[i_n].addrs)
    /\ i_pc' = "ifaces"
    /\ i_n' = i_n + 1
    /\ UNCHANGED <<interfaces, interface_filter, ip_filter, network_types, i_t,
                   i_a, ipv4requested, ipv6requested, ips, i_result>>

\* the trailing expression: ips
IfaceReturn ==
    /\ i_pc = "ifaces"
    /\ i_n > Len(interfaces)
    /\ i_result' = ips
    /\ i_pc' = "done"
    /\ UNCHANGED <<interfaces, interface_filter, ip_filter, network_types, i_t,
                   i_n, i_a, ipv4requested, ipv6requested, ips>>

IfaceNext ==
    \/ IfaceTypeLoop
    \/ IfaceTypeLoopEnd
    \/ IfaceFilteredOut
    \/ IfaceEnter
    \/ IfaceAddr
    \/ IfaceAddrsEnd
    \/ IfaceReturn

(***************************************************************************)
(* Specifications                                                           *)
(***************************************************************************)
PortIdle ==
    /\ p_in = PortArgs(0, 0, 0)
    /\ p_free = {}
    /\ p_pc = "call"
    /\ port_start = 0
    /\ port_current = 0
    /\ p_result = NoResult
    /\ p_count = 0
    /\ p_tried = {}
    /\ p_outside = 0
    /\ p_last = -1

StunIdle ==
    /\ s_local = Ok(AddrA4)
    /\ s_server = AddrB4
    /\ s_deadline = 0
    /\ s_tid = Tid1
    /\ s_pc = "call"
    /\ s_sent = <<>>
    /\ s_recvs = 0
    /\ s_elapsed = 0
    /\ s_env = "none"
    /\ s_dgram = NoDgram
    /\ s_result = NoResult

CodecIdle ==
    /\ c_info = SendInfo(ZeroAddr, ZeroAddr)
    /\ c_pc = "init"
    /\ c_wire = NoResult
    /\ c_out = NoResult

AddrIdle ==
    /\ e_addr = ZeroAddr
    /\ e_pc = "init"
    /\ e_bytes = <<>>
    /\ e_out = NoResult
    /\ r_buf = <<>>
    /\ r_len = 0
    /\ r_recv = NoResult
    /\ r_send = NoResult

IfaceIdle ==
    /\ interfaces = <<>>
    /\ interface_filter = None
    /\ ip_filter = None
    /\ network_types = <<>>
    /\ i_pc = "types"
    /\ i_t = 1
    /\ i_n = 1
    /\ i_a = 1
    /\ ipv4requested = FALSE
    /\ ipv6requested = FALSE
    /\ ips = {}
    /\ i_result = {}

InitMailbox == MboxInit /\ PortIdle /\ StunIdle /\ CodecIdle /\ AddrIdle /\ IfaceIdle
NextMailbox == MboxNext /\ UNCHANGED <<portVars, stunVars, codecVars, addrVars, ifaceVars>>
SpecMailbox == InitMailbox /\ [][NextMailbox]_vars

InitPort == MboxInit /\ PortInit /\ StunIdle /\ CodecIdle /\ AddrIdle /\ IfaceIdle
NextPort == PortNext /\ UNCHANGED <<mboxVars, stunVars, codecVars, addrVars, ifaceVars>>
SpecPort == InitPort /\ [][NextPort]_vars

InitStun == MboxInit /\ PortIdle /\ StunInit /\ CodecIdle /\ AddrIdle /\ IfaceIdle
NextStun == StunNext /\ UNCHANGED <<mboxVars, portVars, codecVars, addrVars, ifaceVars>>
SpecStun == InitStun /\ [][NextStun]_vars

InitCodec == MboxInit /\ PortIdle /\ StunIdle /\ CodecInit /\ AddrIdle /\ IfaceIdle
NextCodec == CodecNext /\ UNCHANGED <<mboxVars, portVars, stunVars, addrVars, ifaceVars>>
SpecCodec == InitCodec /\ [][NextCodec]_vars

InitAddr == MboxInit /\ PortIdle /\ StunIdle /\ CodecIdle /\ AddrInit /\ IfaceIdle
NextAddr == AddrNext /\ UNCHANGED <<mboxVars, portVars, stunVars, codecVars, ifaceVars>>
SpecAddr == InitAddr /\ [][NextAddr]_vars

InitIface == MboxInit /\ PortIdle /\ StunIdle /\ CodecIdle /\ AddrIdle /\ IfaceInit
NextIface == IfaceNext /\ UNCHANGED <<mboxVars, portVars, stunVars, codecVars, addrVars>>
SpecIface == InitIface /\ [][NextIface]_vars

(***************************************************************************)
(* Properties                                                               *)
(***************************************************************************)
IsPrefix(a, b) == Len(a) <= Len(b) /\ SubSeq(b, 1, Len(a)) = a
InCritical(t) == m_pc[t] \in {"cs", "ret"}

\* C1: within each mailbox queue the messages dequeued so far are a prefix, in
\* the same order, of the messages enqueued into that queue, under every
\* interleaving of sends, receives, external pushes and external drains.
C1_QueueFifo ==
    /\ IsPrefix(deq_egress, enq_egress)
    /\ IsPrefix(deq_ingress, enq_ingress)

\* two different messages were enqueued on egress and the first was drained
C1_Witness ==
    /\ Len(enq_egress) >= 2
    /\ enq_egress[1] # enq_egress[2]
    /\ deq_egress = <<enq_egress[1]>>

\* C2: with several producers calling send_external concurrently, at most one
\* task is inside the critical section, the guard is held exactly by that task
\* and is released once the call has returned, and a send that has completed
\* its critical section has appended its message exactly once to the egress
\* queue as it was when the guard was taken and has left ingress unchanged.
C2_ConcurrentSend ==
    /\ Cardinality({t \in Tasks : InCritical(t)}) <= 1
    /\ \A t \in Tasks : InCritical(t) <=> lock = t
    /\ \A t \in Tasks :
          (m_pc[t] = "ret" /\ m_op[t] = "send") =>
              /\ egress_msg = Append(m_snap[t].egress_msg, m_arg[t])
              /\ ingress_mgs = m_snap[t].ingress_mgs

\* a producer has appended behind an earlier message while another producer
\* is waiting for the guard
C2_Witness ==
    \E t \in Tasks, u \in Tasks :
        /\ t # u
        /\ m_pc[t] = "ret" /\ m_op[t] = "send"
        /\ m_pc[u] = "lock" /\ m_op[u] = "send"
        /\ Len(egress_msg) >= 2

\* C3: get_message never blocks and never fails: on an empty ingress queue it
\* returns None and changes neither queue; otherwise it returns the front
\* message, removes exactly that message and leaves egress unchanged.
C3_Receive ==
    \A t \in Tasks :
        /\ (m_pc[t] = "cs" /\ m_op[t] = "recv") => ENABLED MboxGetMessage(t)
        /\ (m_pc[t] = "ret" /\ m_op[t] = "recv") =>
              /\ egress_msg = m_snap[t].egress_msg
              /\ IF m_snap[t].ingress_mgs = <<>>
                 THEN m_ret[t] = None /\ ingress_mgs = <<>>
                 ELSE /\ m_ret[t] = Some(Head(m_snap[t].ingress_mgs))
                      /\ ingress_mgs = Tail(m_snap[t].ingress_mgs)

\* a receive on the emptied queue returned None after an earlier receive took
\* the front of two different messages
C3_Witness ==
    \E t \in Tasks :
        /\ m_pc[t] = "ret" /\ m_op[t] = "recv"
        /\ m_snap[t].ingress_mgs = <<>>
        /\ m_ret[t] = None
        /\ deq_ingress # <<>>

IsScan(in) == ~IsDirect(in) /\ EffMin(in) <= EffMax(in)
RangeSize(in) == EffMax(in) - EffMin(in) + 1
PortReturned == p_pc \in {"done", "panic"}

\* C4: when the call scans a range [min, max] (local port 0, min <= max) in
\* which every port fails to bind, it never binds outside the range or more
\* than max - min + 1 times, and it ends by returning ErrPort after a bind
\* attempt on each port of the range exactly once.
C4_ScanTerminates ==
    (IsScan(p_in) /\ p_free \cap EffRange(p_in) = {}) =>
        /\ p_count <= RangeSize(p_in)
        /\ p_outside = 0
        /\ PortReturned =>
              /\ p_result = Err("ErrPort")
              /\ p_count = RangeSize(p_in)
              /\ p_tried = EffRange(p_in)

\* C5: when at least one port of the scanned range can be bound, the call
\* makes at most max - min + 1 bind attempts and ends by returning a bound
\* socket, whatever the starting port.
C5_ScanSucceeds ==
    (IsScan(p_in) /\ p_free \cap EffRange(p_in) # {}) =>
        /\ p_count <= RangeSize(p_in)
        /\ PortReturned => IsOk(p_result)

\* the length byte stun_request reads at bs[1] of the zero-filled buffer
RecvLenByte(d) == LET b == DgramBytes(d) IN IF Len(b) >= 2 THEN b[2] ELSE 0
\* the packet type stun_request reads at bs[0]
RecvFirstByte(d) == LET b == DgramBytes(d) IN IF Len(b) >= 1 THEN b[1] ELSE 0
MalformedFrame(d) ==
    /\ RecvFirstByte(d) = 204
    /\ \/ RecvLenByte(d) \notin {12, 36}
       \/ 2 + RecvLenByte(d) > Len(DgramBytes(d))

\* C6: a received buffer that starts with 0xCC and whose length byte is not 12
\* or 36, or whose header extends past the received bytes, makes stun_request
\* return an error value; it does not panic.
C6_MalformedRejected ==
    (s_env = "datagram" /\ MalformedFrame(s_dgram)) =>
        (s_pc = "done" /\ IsErr(s_result))

\* C7: with a nonzero deadline and a transport that never completes the
\* receive, stun_request returns the error of the elapsed timer, no earlier
\* than the deadline and no later than deadline + 200ms + slack, after exactly
\* one send and one receive.
C7_Timeout ==
    (s_deadline > 0 /\ s_recvs >= 1 /\ s_env = "none") =>
        /\ s_elapsed <= s_deadline + GraceMs + SlackMs
        /\ Len(s_sent) = 1 /\ s_recvs = 1
        /\ s_pc # "panic"
        /\ s_pc = "done" =>
              /\ s_result.tag = "Err"
              /\ s_result.val = ErrOther(ElapsedText)
              /\ s_elapsed >= s_deadline

\* the call timed out under the 300ms deadline
C7_Witness ==
    /\ s_pc = "done" /\ s_env = "none" /\ s_recvs = 1
    /\ s_deadline = 300
    /\ s_result.tag = "Err"
    /\ s_elapsed >= 500

\* a STUN message: it decodes, and its two leading bits are zero (RFC 5389)
ValidStun(raw) == IsOk(MessageDecode(raw)) /\ raw[1] < 64
ValidFrame(d) ==
    /\ d.kind = "framed"
    /\ SameFamily(d.info)
    /\ d.hdr = RelayHeader(d.info)
    /\ ValidStun(d.payload)

\* C8: a buffer made of 0xCC, a length byte, a SendInfo of that length and a
\* valid STUN message yields the message an unframed buffer holding only that
\* STUN message decodes to, with the SendInfo's `to` as local address; a
\* buffer not starting with 0xCC is decoded from byte 0 with local address
\* 0.0.0.0:0.
C8_Classification ==
    s_env = "datagram" =>
        /\ ValidFrame(s_dgram) =>
              /\ s_pc = "done"
              /\ s_result.tag = "Ok"
              /\ Classify(s_dgram.payload).tag = "Ok"
              /\ s_result.val = <<Classify(s_dgram.payload).val[1], s_dgram.info.to>>
              /\ s_result.val[1] = MessageDecode(s_dgram.payload).val
        /\ RecvFirstByte(s_dgram) # 204 =>
              /\ s_pc = "done"
              /\ IF IsOk(MessageDecode(DgramBytes(s_dgram)))
                 THEN /\ s_result.tag = "Ok"
                      /\ s_result.val = <<MessageDecode(DgramBytes(s_dgram)).val, ZeroAddr>>
                 ELSE s_result.tag = "Err"

\* a framed response carrying an IPv6 pair and a STUN message with attributes
\* was decoded
C8_Witness ==
    /\ s_env = "datagram"
    /\ ValidFrame(s_dgram)
    /\ s_dgram.info.to.fam = "V6"
    /\ s_dgram.info.to # s_dgram.info.from
    /\ s_dgram.payload = MessageRaw(BINDING_SUCCESS, Tid2, <<0, 32, 0, 0>>)
    /\ s_result.tag = "Ok"

\* C9: every frame stun_request hands to send_to carries a length byte of 12
\* or 36 and a SendInfo that parse_send_info accepts, whatever the families of
\* the transport's local address and of server_addr.
C9_SameFamilyOnWire ==
    \A k \in 1..Len(s_sent) :
        LET data == s_sent[k].data
        IN  /\ data[2] \in {12, 36}
            /\ IsOk(parse_send_info(Slice(data, 2, Len(data)), data[2]))

\* C10: for a SendInfo whose endpoints share a family, serialize_send_info
\* yields 0xAA, then 12 (IPv4 pair) or 36 (IPv6 pair), and parse_send_info on
\* the bytes after these two with that length returns the same SendInfo.
C10_SendInfoRoundTrip ==
    (SameFamily(c_info) /\ c_pc # "init") =>
        /\ IsOk(c_wire)
        /\ c_wire.val[1] = 170
        /\ c_wire.val[2] = (IF c_info.from.fam = "V4" THEN 12 ELSE 36)
        /\ c_pc = "decoded" => (c_out.tag = "Ok" /\ c_out.val = c_info)

\* an IPv6 pair with different endpoints went through encode and decode
C10_Witness ==
    /\ c_pc = "decoded"
    /\ c_info.from.fam = "V6" /\ c_info.to.fam = "V6"
    /\ c_info.from # c_info.to
    /\ c_out.tag = "Ok"

\* C11: serialize_socket_addr emits the address octets followed by the port
\* as two big-endian bytes (6 bytes for IPv4, 18 for IPv6), and
\* parse_recv_info on those bytes with their length returns the same endpoint.
C11_EndpointRoundTrip ==
    /\ e_pc # "init" =>
          /\ e_bytes = e_addr.ip \o <<e_addr.port \div 256, e_addr.port % 256>>
          /\ Len(e_bytes) = (IF e_addr.fam = "V4" THEN 6 ELSE 18)
    /\ e_pc = "decoded" => (e_out.tag = "Ok" /\ e_out.val = e_addr)

\* an IPv6 endpoint whose port bytes differ went through encode and decode
C11_Witness ==
    /\ e_pc = "decoded"
    /\ e_addr.fam = "V6"
    /\ e_addr.port = 3478
    /\ e_out.tag = "Ok"

\* C12: parse_send_info with a length other than 12 or 36, and
\* parse_recv_info with a length other than 6 or 18, return
\* ErrAddressParseFailed whatever the buffer holds.
C12_LengthRejection ==
    /\ (r_send # NoResult /\ r_len \notin {12, 36}) =>
          (r_send.tag = "Err" /\ r_send.val = "ErrAddressParseFailed")
    /\ (r_recv # NoResult /\ r_len \notin {6, 18}) =>
          (r_recv.tag = "Err" /\ r_recv.val = "ErrAddressParseFailed")

\* both parsers rejected length 24 on a buffer that holds 36 bytes
C12_Witness ==
    /\ r_len = 24
    /\ Len(r_buf) = 36
    /\ r_send.tag = "Err"
    /\ r_recv.tag = "Err"

\* C20: given a buffer shorter than len, parse_recv_info (len 6 or 18) and
\* parse_send_info (len 12 or 36) return ErrAddressParseFailed instead of
\* panicking; given a longer buffer, only its first len bytes decide the
\* result.
C20_NoOverread ==
    /\ (r_recv # NoResult /\ r_len \in {6, 18} /\ Len(r_buf) < r_len) =>
          (r_recv.tag = "Err" /\ r_recv.val = "ErrAddressParseFailed")
    /\ (r_send # NoResult /\ r_len \in {12, 36} /\ Len(r_buf) < r_len) =>
          (r_send.tag = "Err" /\ r_send.val = "ErrAddressParseFailed")
    /\ (r_recv # NoResult /\ Len(r_buf) >= r_len) =>
          LET cut == parse_recv_info(SubSeq(r_buf, 1, r_len), r_len)
          IN  r_recv.tag = cut.tag /\ r_recv.val = cut.val
    /\ (r_send # NoResult /\ Len(r_buf) >= r_len) =>
          LET cut == parse_send_info(SubSeq(r_buf, 1, r_len), r_len)
          IN  r_send.tag = cut.tag /\ r_send.val = cut.val

\* C13: a call whose effective minimum exceeds its effective maximum fails
\* without any bind attempt, a scan that runs out of ports fails too, and the
\* error value of the second differs from the error value of the first.
C13_DistinctPortErrors ==
    /\ (~IsDirect(p_in) /\ EffMin(p_in) > EffMax(p_in) /\ PortReturned) =>
          (p_result = InvalidRangeError /\ p_count = 0)
    /\ (IsScan(p_in) /\ PortReturned /\ p_result.tag = "Err") =>
          p_result.val # InvalidRangeError.val

\* C14: under a nonzero deadline a receive that fails with an I/O error and a
\* receive that times out return errors of different kinds, and an I/O error
\* of the receive is reported with the same kind whether the deadline is zero
\* or not.
C14_DistinctStunErrors ==
    /\ (s_pc = "done" /\ s_deadline > 0 /\ s_env = "recv_err") =>
          s_result.val.kind # ErrOther(ElapsedText).kind
    /\ (s_pc = "done" /\ s_env = "recv_err") =>
          s_result.val.kind = ErrUtil(IoErrorText).kind

\* C15: during the scan every bind is attempted on a port of the effective
\* range, a failed attempt at the effective maximum is followed by an attempt
\* at the effective minimum, and the increment of the current port neither
\* overflows nor leaves the range, also when the effective maximum is 65535.
C15_ScanStaysInRange ==
    IsScan(p_in) =>
        /\ p_outside = 0
        /\ p_pc # "panic"
        /\ p_pc = "scan" => port_current \in EffRange(p_in)
        /\ (p_pc = "scan" /\ p_last = EffMax(p_in)) => port_current = EffMin(p_in)

C17_ZeroDeadlineWaits ==
    (s_deadline = 0 /\ s_recvs >= 1) =>
        /\ s_env = "none" => s_pc = "await"
        /\ s_pc # "await" => s_env \in {"datagram", "recv_err"}
        /\ s_result.tag = "Err" => s_result.val # ErrOther(ElapsedText)

\* a call with deadline zero is still waiting after 500ms
C17_Witness ==
    /\ s_deadline = 0
    /\ s_pc = "await"
    /\ s_env = "none"
    /\ s_elapsed >= 500

\* C18: when local_addr has a non-zero port, or both range bounds are zero,
\* the call makes exactly one bind attempt, on local_addr itself, and returns
\* what that bind returned, whatever the range is and without scanning.
C18_DirectBind ==
    (p_in.laddr_port # 0 \/ (p_in.port_min = 0 /\ p_in.port_max = 0)) =>
        /\ p_pc \in {"call", "done"}
        /\ p_pc = "call" => p_count = 0
        /\ p_pc = "done" =>
              /\ p_count = 1
              /\ p_last = p_in.laddr_port
              /\ IF p_in.laddr_port \in p_free
                 THEN p_result.tag = "Ok" /\ p_result.val = p_in.laddr_port
                 ELSE p_result.tag = "Err" /\ p_result.val = "bind"

\* a call with local port 5001 and the inverted range 5002..5000 bound 5001
C18_Witness ==
    /\ p_pc = "done"
    /\ p_in = PortArgs(5002, 5000, 5001)
    /\ p_result.tag = "Ok"
    /\ p_count = 1

\* the addresses the claim describes: on some enumerated interface whose name
\* passes the interface-name filter, not loopback, of a requested family,
\* and passing the per-address filter
OnPassingInterface(a) ==
    \E n \in 1..Len(interfaces) :
        /\ \E k \in 1..Len(interfaces[n].addrs) : interfaces[n].addrs[k] = a
        /\ interface_filter # None => interfaces[n].name \in interface_filter[1]
FamilyRequested(a) ==
    \/ Len(a) = 4 /\ \E t \in 1..Len(network_types) : network_types[t] \in {Udp4, Tcp4}
    \/ Len(a) = 16 /\ \E t \in 1..Len(network_types) : network_types[t] \in {Udp6, Tcp6}
ExpectedIps ==
    {a \in {Ip4Lo, Ip4Lo2, Ip4A, Ip4B, Ip6Lo, Ip6A} :
        /\ OnPassingInterface(a)
        /\ ~is_loopback(a)
        /\ FamilyRequested(a)
        /\ ip_filter # None => a \in ip_filter[1]}

\* C19: local_interfaces returns exactly the addresses that sit on an
\* interface passing the name filter, are not loopback, have a requested
\* family and pass the address filter; nothing else is ever inserted, and an
\* empty list of network types gives the empty set.
C19_LocalInterfaces ==
    /\ ips \subseteq ExpectedIps
    /\ i_pc = "done" =>
          /\ i_result = ExpectedIps
          /\ network_types = <<>> => i_result = {}

\* both filters given, both families requested, three interfaces of which one
\* is filtered out; 10.0.0.1 sits on two of them and is the only address left
C19_Witness ==
    /\ i_pc = "done"
    /\ interfaces = <<IfLo, IfEth0, IfWlan0>>
    /\ interface_filter = Some({"eth0", "wlan0"})
    /\ ip_filter = Some({Ip4A, Ip4Lo, Ip6Lo})
    /\ network_types = <<Udp4, Udp6>>
    /\ i_result = {Ip4A}

====
